---- MODULE Spec2Model ----
(***************************************************************************)
(* Menu navigation of the Remedy bot (src/bot.py): catalog of brands,      *)
(* products and usage instructions shown through inline keyboards, plus a  *)
(* short news feed.                                                        *)
(*                                                                         *)
(* Strings that the code parses (identifiers, callback data) are modelled  *)
(* as sequences of one-character strings, so that startswith and split act *)
(* on them as they do in Python.  Python dicts, which keep insertion       *)
(* order, are modelled as sequences of [key, val] entries with distinct    *)
(* keys.                                                                   *)
(***************************************************************************)
EXTENDS Integers, Sequences, FiniteSets, TLC

VARIABLES shown, last, buttons, per_row, rows, disk, run

vars == <<shown, last, buttons, per_row, rows, disk, run>>

(***************************************************************************)
(* Bounds of the model.                                                    *)
(***************************************************************************)
MaxBrands == 4
MaxNews == 6
MaxButtons == 5
MaxPerRow == 3

(***************************************************************************)
(* Program constants.                                                      *)
(***************************************************************************)
MAX_BUTTONS_PER_ROW == 2
MAX_NEWS_ITEMS == 5

(***************************************************************************)
(* A string is a sequence of one-character strings ("" is <<>>); a fixed   *)
(* literal of the code is a one-element sequence naming it.  A text is a   *)
(* sequence of lines, a line a sequence of the strings it concatenates.    *)
(***************************************************************************)
SEP == ":"
PlainText == <<"plain">>
HTML == <<"HTML">>
NoException == <<>>

Min(a, b) == IF a <= b THEN a ELSE b

(***************************************************************************)
(* Python dict operations on a sequence of [key, val] entries.             *)
(***************************************************************************)
keys(d) == [i \in 1..Len(d) |-> d[i].key]
contains(d, k) == \E i \in 1..Len(d) : d[i].key = k
getitem(d, k) == d[CHOOSE i \in 1..Len(d) : d[i].key = k].val

(***************************************************************************)
(* str.startswith and str.split(sep, maxsplit).                            *)
(***************************************************************************)
startswith(s, prefix) ==
    /\ Len(s) >= Len(prefix)
    /\ SubSeq(s, 1, Len(prefix)) = prefix

RECURSIVE split(_, _, _)
split(s, sep, maxsplit) ==
    IF maxsplit = 0 \/ ~ \E i \in 1..Len(s) : s[i] = sep
    THEN <<s>>
    ELSE LET i == CHOOSE j \in 1..Len(s) :
                      /\ s[j] = sep
                      /\ \A k \in 1..(j - 1) : s[k] # sep
         IN  <<SubSeq(s, 1, i - 1)>>
                 \o split(SubSeq(s, i + 1, Len(s)), sep, maxsplit - 1)

(***************************************************************************)
(* str(i) of a natural number, and the exceptions the handler meets: the   *)
(* exception type followed by its str(e).                                  *)
(***************************************************************************)
DIGITS == <<"0", "1", "2", "3", "4", "5", "6", "7", "8", "9">>

RECURSIVE str(_)
str(i) ==
    IF i < 10
    THEN <<DIGITS[i + 1]>>
    ELSE str(i \div 10) \o <<DIGITS[(i % 10) + 1]>>

KeyError(key) == <<"KeyError", "'">> \o key \o <<"'">>
ValueError(got) ==
    <<"ValueError", "not enough values to unpack (expected 3, got ">>
        \o str(got) \o <<")">>

(***************************************************************************)
(* Callback data placed on the buttons.                                    *)
(***************************************************************************)
HOME == <<"H", "O", "M", "E">>
NEWS == <<"N", "E", "W", "S">>
BrandToken(brand) == <<"B", SEP>> \o brand
ProductToken(brand, product) == <<"P", SEP>> \o brand \o <<SEP>> \o product

(***************************************************************************)
(* Catalog accessors.  A missing brand gives the empty product list.       *)
(***************************************************************************)
get_brands(data) == keys(data.brands)

get_products_for_brand(data, brand) ==
    IF contains(data.brands, brand)
    THEN keys(getitem(data.brands, brand))
    ELSE <<>>

(* data["brands"][brand][product]["instruction"]: the value, or the        *)
(* KeyError of the first missing key.                                      *)
get_instruction(data, brand, product) ==
    IF ~ contains(data.brands, brand)
    THEN [raised |-> KeyError(brand), value |-> <<>>]
    ELSE IF ~ contains(getitem(data.brands, brand), product)
    THEN [raised |-> KeyError(product), value |-> <<>>]
    ELSE [raised |-> NoException,
          value |-> getitem(getitem(data.brands, brand), product).instruction]

(***************************************************************************)
(* Keyboards.  A markup is a sequence of rows of buttons; NoMarkup is the  *)
(* absent reply_markup, which leaves the message without a keyboard.       *)
(***************************************************************************)
NoMarkup == <<>>

InlineKeyboardButton(text, callback_data) ==
    [text |-> text, callback_data |-> callback_data]

(* variant: the trailing short chunk is dropped *)
chunk_buttons_floor(bs, n) ==
    [k \in 1..(Len(bs) \div n) |-> SubSeq(bs, (k - 1) * n + 1, k * n)]

chunk_buttons(bs, n) ==
    [k \in 1..((Len(bs) + n - 1) \div n) |->
        SubSeq(bs, (k - 1) * n + 1, Min(k * n, Len(bs)))]

(* variant: the news button is packed with the brand buttons *)
main_menu_keyboard_packed(data) ==
    LET brands == keys(data.brands)
        brand_buttons == [i \in 1..Len(brands) |->
            [text |-> brands[i], callback_data |-> BrandToken(brands[i])]]
    IN  [k \in 1..((Len(brands) + 2) \div 2) |->
            SubSeq(brand_buttons \o <<[text |-> <<"news">>, callback_data |-> NEWS]>>,
                   2 * k - 1, Min(2 * k, Len(brands) + 1))]

main_menu_keyboard(data) ==
    LET brands == get_brands(data)
        brand_buttons == [i \in 1..Len(brands) |->
            InlineKeyboardButton(brands[i], BrandToken(brands[i]))]
    IN  chunk_buttons(brand_buttons, MAX_BUTTONS_PER_ROW)
            \o << <<InlineKeyboardButton(<<"news">>, NEWS)>> >>

(* variant: the products are listed in reverse *)
brand_menu_keyboard_reversed(data, brand) ==
    LET products == get_products_for_brand(data, brand)
        n == Len(products)
        bs == [i \in 1..n |->
            InlineKeyboardButton(products[n + 1 - i],
                                 ProductToken(brand, products[n + 1 - i]))]
    IN  chunk_buttons(bs, MAX_BUTTONS_PER_ROW)
            \o << <<InlineKeyboardButton(<<"back to brands">>, HOME)>> >>

brand_menu_keyboard(data, brand) ==
    LET products == get_products_for_brand(data, brand)
        bs == [i \in 1..Len(products) |->
            InlineKeyboardButton(products[i], ProductToken(brand, products[i]))]
    IN  chunk_buttons(bs, MAX_BUTTONS_PER_ROW)
            \o << <<InlineKeyboardButton(<<"back to brands">>, HOME)>> >>

product_menu_keyboard(brand) ==
    << <<InlineKeyboardButton(<<"back to products">>, BrandToken(brand))>>,
       <<InlineKeyboardButton(<<"back to main menu">>, HOME)>> >>

(***************************************************************************)
(* News rendering.  A news item is a dict from field names to strings.     *)
(* The message is the header line followed by one line per item; an        *)
(* absent or empty date, summary or url contributes nothing to its line.   *)
(***************************************************************************)
NO_NEWS == << <<"no news yet">> >>
NEWS_HEADER == <<"latest news and events">>

get(d, k, default) == IF contains(d, k) THEN getitem(d, k) ELSE default

news_line(i, it) ==
    LET title == get(it, "title", <<"untitled">>)
        date == get(it, "date", <<>>)
        summary == get(it, "summary", <<>>)
        url == get(it, "url", <<>>)
    IN  str(i) \o <<". ">> \o title
            \o (IF date # <<>> THEN <<" - ">> \o date ELSE <<>>)
            \o (IF summary # <<>> THEN <<"\n">> \o summary ELSE <<>>)
            \o (IF url # <<>> THEN <<"\n", "link ">> \o url ELSE <<>>)

(* variant: every item is rendered *)
render_news_message_all(items) ==
    IF items = <<>>
    THEN NO_NEWS
    ELSE <<NEWS_HEADER>> \o [i \in 1..Len(items) |-> news_line(i, items[i])]

render_news_message(items) ==
    IF items = <<>>
    THEN NO_NEWS
    ELSE LET first == SubSeq(items, 1, Min(Len(items), MAX_NEWS_ITEMS))
         IN  <<NEWS_HEADER>> \o [i \in 1..Len(first) |-> news_line(i, first[i])]

(***************************************************************************)
(* The two files.  products.json either loads (it is a dict with a dict    *)
(* "brands") or load_products raises; news.json either holds a list or     *)
(* load_news gives the empty list.                                         *)
(***************************************************************************)
load_products(file) ==
    IF file.ok
    THEN [raised |-> NoException, value |-> [brands |-> file.brands]]
    ELSE [raised |-> <<"LoadError">>, value |-> [brands |-> <<>>]]

(* variant: a failure yields a one-item feed that reports it *)
load_news_reporting(newsfile) ==
    IF newsfile.ok
    THEN newsfile.items
    ELSE << << [key |-> "title", val |-> <<"news unavailable">>] >> >>

load_news(newsfile) == IF newsfile.ok THEN newsfile.items ELSE <<>>

(***************************************************************************)
(* Messages and the fixed texts.                                           *)
(***************************************************************************)
Message(text, reply_markup, parse_mode) ==
    [text |-> text, reply_markup |-> reply_markup, parse_mode |-> parse_mode]

NoMessage == Message(<<>>, NoMarkup, PlainText)

START_TEXT == << <<"hello, choose a brand, then a product, or press news">> >>
HOME_TEXT == << <<"choose a brand:">> >>
BRAND_NOT_FOUND == << <<"! brand not found">> >>
HELP_TEXT == << <<"help: /start /events /help">> >>

brand_text(brand) == << <<"products of brand ">> \o brand \o <<", choose:">> >>

product_title(brand, product) == <<"box ">> \o brand \o <<" -> ">> \o product

product_text(brand, product, instruction) ==
    <<product_title(brand, product), <<>>, instruction>>

error_text(e) == << <<"X error: ">> \o Tail(e) >>

(***************************************************************************)
(* on_button: what handling one callback query does, as the sequence of    *)
(* edits of the triggering message and the exception leaving the handler.  *)
(***************************************************************************)
Edited(m) == [edits |-> <<m>>, raised |-> NoException]
Raised(e) == [edits |-> <<>>, raised |-> e]
Nothing == [edits |-> <<>>, raised |-> NoException]

(* except Exception as e: edit_message_text(f"error: {e}") *)
Caught(e) == Edited(Message(error_text(e), NoMarkup, PlainText))

(* variant: the brand is not looked up before its list is built *)
on_button_brand_unchecked(qdata, data) ==
    LET brand == split(qdata, SEP, 1)[2]
    IN  Edited(Message(brand_text(brand),
                       brand_menu_keyboard(data, brand), PlainText))

on_button_brand(qdata, data) ==
    LET brand == split(qdata, SEP, 1)[2]
    IN  IF ~ contains(data.brands, brand)
        THEN Edited(Message(BRAND_NOT_FOUND, main_menu_keyboard(data), PlainText))
        ELSE Edited(Message(brand_text(brand),
                            brand_menu_keyboard(data, brand), PlainText))

on_button_product(qdata, data) ==
    LET parts == split(qdata, SEP, 2)
    IN  IF Len(parts) # 3
        THEN Caught(ValueError(Len(parts)))
        ELSE LET brand == parts[2]
                 product == parts[3]
                 instruction == get_instruction(data, brand, product)
             IN  IF instruction.raised # NoException
                 THEN Caught(instruction.raised)
                 ELSE Edited(Message(
                          product_text(brand, product, instruction.value),
                          product_menu_keyboard(brand), HTML))

on_button(qdata, file, newsfile) ==
    LET loaded == load_products(file)
        data == loaded.value
    IN  IF loaded.raised # NoException
        THEN Raised(loaded.raised)
        ELSE IF qdata = HOME
        THEN Edited(Message(HOME_TEXT, main_menu_keyboard(data), PlainText))
        ELSE IF qdata = NEWS
        THEN Edited(Message(render_news_message(load_news(newsfile)),
                            main_menu_keyboard(data), HTML))
        ELSE IF startswith(qdata, <<"B", SEP>>)
        THEN on_button_brand(qdata, data)
        ELSE IF startswith(qdata, <<"P", SEP>>)
        THEN on_button_product(qdata, data)
        ELSE Nothing

(***************************************************************************)
(* The command handlers: each replies with a new message or raises.        *)
(***************************************************************************)
Replied(m) == [replies |-> <<m>>, raised |-> NoException]
ReplyRaised(e) == [replies |-> <<>>, raised |-> e]

start(file) ==
    LET loaded == load_products(file)
    IN  IF loaded.raised # NoException
        THEN ReplyRaised(loaded.raised)
        ELSE Replied(Message(START_TEXT, main_menu_keyboard(loaded.value),
                             PlainText))

(* home replying with the greeting of start *)
home_greeting(file) ==
    LET loaded == load_products(file)
    IN  IF loaded.raised # NoException
        THEN ReplyRaised(loaded.raised)
        ELSE Replied(Message(START_TEXT, main_menu_keyboard(loaded.value),
                             PlainText))

(* registered for the menu command only, so update.callback_query is None  *)
(* and the reply branch is the one taken                                   *)
home(file) ==
    LET loaded == load_products(file)
    IN  IF loaded.raised # NoException
        THEN ReplyRaised(loaded.raised)
        ELSE Replied(Message(HOME_TEXT, main_menu_keyboard(loaded.value),
                             PlainText))

events(newsfile) ==
    Replied(Message(render_news_message(load_news(newsfile)), NoMarkup, HTML))

help_cmd == Replied(Message(HELP_TEXT, NoMarkup, PlainText))

(***************************************************************************)
(* Inputs.  File contents: the catalog of n brands, n <= MaxBrands, gives  *)
(* its k-th brand the first n - k products, so that brands with no         *)
(* product, with an odd and with an even number of products occur, and so  *)
(* do catalogs with no brand, an odd and an even number of brands.  Some   *)
(* identifiers hold the separator.                                         *)
(***************************************************************************)
BrandName(k) ==
    IF k = 1 THEN <<"a">>
    ELSE IF k = 2 THEN <<"a", SEP, "b">>
    ELSE [i \in 1..(k - 2) |-> "c"]

ProductName(j) ==
    IF j = 1 THEN <<"b", SEP, "c">>
    ELSE IF j = 2 THEN <<"c">>
    ELSE [i \in 1..(j - 2) |-> "d"]

Instruction(k, j) == <<"<b>use ">> \o str(k) \o <<".">> \o str(j) \o <<"</b>">>

CatalogFile(n) ==
    [ok |-> TRUE,
     brands |-> [k \in 1..n |->
        [key |-> BrandName(k),
         val |-> [j \in 1..(n - k) |->
                    [key |-> ProductName(j),
                     val |-> [instruction |-> Instruction(k, j)]]]]]]

BadFile == [ok |-> FALSE, brands |-> <<>>]

Files == {CatalogFile(n) : n \in 0..MaxBrands} \cup {BadFile}

NewsItem(i) ==
    IF i % 3 = 1
    THEN << [key |-> "title", val |-> <<"t">> \o str(i)],
            [key |-> "date", val |-> <<"d">> \o str(i)],
            [key |-> "summary", val |-> <<"s">> \o str(i)],
            [key |-> "url", val |-> <<"u">> \o str(i)] >>
    ELSE IF i % 3 = 2
    THEN << [key |-> "title", val |-> <<"t">> \o str(i)],
            [key |-> "date", val |-> <<>>] >>
    ELSE << [key |-> "summary", val |-> <<"s">> \o str(i)] >>

NewsFile(n) == [ok |-> TRUE, items |-> [i \in 1..n |-> NewsItem(i)]]
BadNewsFile == [ok |-> FALSE, items |-> <<>>]
NewsFiles == {NewsFile(n) : n \in 0..MaxNews} \cup {BadNewsFile}

(* Callback data that arrives whatever the message shows (a button of an   *)
(* older message, or data the client made up); the buttons of the message  *)
(* shown are added to them in Next.                                        *)
BrandNames == {BrandName(1), BrandName(2), <<>>, <<"z">>}
ProductNames == {ProductName(1), ProductName(2), <<"z">>}

Tokens ==
    {HOME, NEWS}
        \cup {BrandToken(b) : b \in BrandNames}
        \cup {ProductToken(b, p) : b \in BrandNames \ {<<>>}, p \in ProductNames}
        \cup {<<"P", SEP, "a">>, <<"X", SEP, "a">>, <<"B">>}

ButtonTokens(m) ==
    UNION {{m.reply_markup[r][i].callback_data : i \in DOMAIN m.reply_markup[r]} :
              r \in DOMAIN m.reply_markup}

(***************************************************************************)
(* State.  shown[c] is the message of chat c that carries the buttons the  *)
(* user presses next (the last one sent or edited there); last[c] records  *)
(* the last event handled for chat c: what was loaded and what the handler *)
(* did.  buttons, per_row and rows belong to the layout specification;     *)
(* disk (the contents of products.json) and run (the handler in progress)  *)
(* to the specification of a catalog replaced while events are handled.    *)
(***************************************************************************)
NoNewsFile == BadNewsFile

Idle ==
    [pc |-> "idle", chat |-> 1, kind |-> "none", qdata |-> <<>>,
     data |-> BadFile, loads |-> 0, replaced |-> FALSE]

Event(kind, qdata, file, newsfile, edits, replies, raised) ==
    [kind |-> kind, qdata |-> qdata, file |-> file, newsfile |-> newsfile,
     edits |-> edits, replies |-> replies, raised |-> raised]

NoEvent == Event("none", <<>>, BadFile, NoNewsFile, <<>>, <<>>, NoException)

NoRows == [done |-> FALSE, value |-> <<>>]

InitChats(chats) ==
    /\ shown = [c \in chats |-> NoMessage]
    /\ last = [c \in chats |-> NoEvent]
    /\ buttons = <<>>
    /\ per_row = MAX_BUTTONS_PER_ROW
    /\ rows = NoRows
    /\ disk = BadFile
    /\ run = Idle

Init == InitChats({1})

Show(c, event) ==
    /\ shown' = [shown EXCEPT ![c] =
                    IF event.edits # <<>> THEN event.edits[Len(event.edits)]
                    ELSE IF event.replies # <<>>
                    THEN event.replies[Len(event.replies)]
                    ELSE @]
    /\ last' = [last EXCEPT ![c] = event]

Display(c, event) ==
    /\ Show(c, event)
    /\ UNCHANGED <<buttons, per_row, rows, disk, run>>

(* /start *)
Start(c, file) ==
    LET r == start(file)
    IN  Display(c, Event("start", <<>>, file, NoNewsFile, <<>>, r.replies, r.raised))

(* /menu *)
Menu(c, file) ==
    LET r == home(file)
    IN  Display(c, Event("menu", <<>>, file, NoNewsFile, <<>>, r.replies, r.raised))

(* /events *)
Events(c, newsfile) ==
    LET r == events(newsfile)
    IN  Display(c, Event("events", <<>>, BadFile, newsfile, <<>>, r.replies, r.raised))

(* /help *)
Help(c) ==
    LET r == help_cmd
    IN  Display(c, Event("help", <<>>, BadFile, NoNewsFile, <<>>, r.replies, r.raised))

(* a callback query carrying qdata, sent from a message that carries an    *)
(* inline keyboard; news.json is read for NEWS only                        *)
OnButton(c, qdata, file, newsfile) ==
    /\ shown[c].reply_markup # NoMarkup
    /\ LET r == on_button(qdata, file, newsfile)
       IN  Display(c, Event("button", qdata, file, newsfile, r.edits, <<>>, r.raised))

(* the news.json contents a callback query can meet *)
NewsRead(qdata, file) ==
    IF qdata = NEWS /\ file.ok THEN NewsFiles ELSE {NoNewsFile}

Next ==
    \E c \in DOMAIN shown :
        \/ \E file \in Files : Start(c, file)
        \/ \E file \in Files : Menu(c, file)
        \/ \E newsfile \in NewsFiles : Events(c, newsfile)
        \/ Help(c)
        \/ \E qdata \in Tokens \cup ButtonTokens(shown[c]), file \in Files :
              \E newsfile \in NewsRead(qdata, file) :
                  OnButton(c, qdata, file, newsfile)

Spec == Init /\ [][Next]_vars

(***************************************************************************)
(* The layout specification: chunk_buttons applied to every sequence of    *)
(* up to MaxButtons buttons and every row width up to MaxPerRow.           *)
(***************************************************************************)
ButtonPool ==
    {InlineKeyboardButton(<<x>>, <<"B", SEP, x>>) : x \in {"a", "b", "c"}}

LayoutInit ==
    /\ shown = [c \in {1} |-> NoMessage]
    /\ last = [c \in {1} |-> NoEvent]
    /\ buttons \in UNION {[1..n -> ButtonPool] : n \in 0..MaxButtons}
    /\ per_row \in 1..MaxPerRow
    /\ rows = NoRows
    /\ disk = BadFile
    /\ run = Idle

Layout ==
    /\ ~ rows.done
    /\ rows' = [done |-> TRUE, value |-> chunk_buttons(buttons, per_row)]
    /\ UNCHANGED <<shown, last, buttons, per_row, disk, run>>

LayoutNext == Layout

SpecLayout == LayoutInit /\ [][LayoutNext]_vars

(***************************************************************************)
(* The two-chat specification: the same handlers serving two chats, over   *)
(* two catalogs, two news feeds and a few callback data.                   *)
(***************************************************************************)
PairFiles == {CatalogFile(1), CatalogFile(2)}
PairNewsFiles == {NewsFile(0), NewsFile(1)}
PairTokens ==
    {HOME, NEWS, BrandToken(BrandName(1)),
     ProductToken(BrandName(1), ProductName(1)), <<"X", SEP, "a">>}

PairInit == InitChats({1, 2})

PairNext ==
    \E c \in DOMAIN shown :
        \/ \E file \in PairFiles : Start(c, file)
        \/ \E file \in PairFiles : Menu(c, file)
        \/ \E qdata \in PairTokens, file \in PairFiles :
              \E newsfile \in NewsRead(qdata, file) \cap (PairNewsFiles \cup {NoNewsFile}) :
                  OnButton(c, qdata, file, newsfile)

SpecPair == PairInit /\ [][PairNext]_vars

(***************************************************************************)
(* The replacement specification: products.json is replaced as a whole by  *)
(* another process at any moment, also while an event is handled.  The     *)
(* handler is taken step by step: it is called (and, for a callback query, *)
(* answers it), reads the file into its local variable data, then builds   *)
(* and sends the screen from that variable.  A reader that meets the file  *)
(* half written fails to load it, which is the content BadFile.            *)
(***************************************************************************)
ConcFiles == {CatalogFile(2), CatalogFile(3), BadFile}
ConcNewsFiles == {NewsFile(1)}
ConcTokens ==
    {HOME, NEWS, BrandToken(BrandName(1)), BrandToken(BrandName(2)),
     ProductToken(BrandName(1), ProductName(2))}

ConcInit ==
    /\ shown = [c \in {1} |-> NoMessage]
    /\ last = [c \in {1} |-> NoEvent]
    /\ buttons = <<>>
    /\ per_row = MAX_BUTTONS_PER_ROW
    /\ rows = NoRows
    /\ disk \in ConcFiles
    /\ run = Idle

(* another process replaces products.json *)
Replace(file) ==
    /\ file # disk
    /\ disk' = file
    /\ run' = IF run.pc = "loaded" THEN [run EXCEPT !.replaced = TRUE] ELSE run
    /\ UNCHANGED <<shown, last, buttons, per_row, rows>>

(* a handler is called: start, home, or on_button up to query.answer() *)
Begin(c, kind, qdata) ==
    /\ run.pc \in {"idle", "done"}
    /\ kind = "button" => shown[c].reply_markup # NoMarkup
    /\ run' = [pc |-> "called", chat |-> c, kind |-> kind, qdata |-> qdata,
               data |-> BadFile, loads |-> 0, replaced |-> FALSE]
    /\ UNCHANGED <<shown, last, buttons, per_row, rows, disk>>

(* data = load_products(): the one read of the file *)
Load ==
    /\ run.pc = "called"
    /\ run' = [run EXCEPT !.pc = "loaded", !.data = disk, !.loads = @ + 1]
    /\ UNCHANGED <<shown, last, buttons, per_row, rows, disk>>

(* the file content a read at the moment of use would give *)
data_of_reread(r) == disk

(* the catalog the rest of the handler works from: its local variable *)
data_of(r) == r.data

(* the rest of the handler: the screen is built from data and sent *)
Respond(newsfile) ==
    /\ run.pc = "loaded"
    /\ LET file == data_of(run)
           r == IF run.kind = "start"
                THEN [edits |-> <<>>] @@ start(file)
                ELSE IF run.kind = "menu"
                THEN [edits |-> <<>>] @@ home(file)
                ELSE [replies |-> <<>>] @@ on_button(run.qdata, file, newsfile)
       IN  Show(run.chat, Event(run.kind, run.qdata, run.data, newsfile,
                                r.edits, r.replies, r.raised))
    /\ run' = [run EXCEPT !.pc = "done"]
    /\ UNCHANGED <<buttons, per_row, rows, disk>>

ConcNext ==
    \/ \E file \in ConcFiles : Replace(file)
    \/ \E c \in DOMAIN shown :
          \/ \E kind \in {"start", "menu"} : Begin(c, kind, <<>>)
          \/ \E qdata \in ConcTokens : Begin(c, "button", qdata)
    \/ Load
    \/ \E newsfile \in ConcNewsFiles \cup {NoNewsFile} :
          /\ newsfile \in IF run.kind = "button"
                          THEN NewsRead(run.qdata, data_of(run))
                          ELSE {NoNewsFile}
          /\ Respond(newsfile)

SpecConc == ConcInit /\ [][ConcNext]_vars

(***************************************************************************)
(* Vocabulary of the properties, stated on the events and the messages     *)
(* without the handler's own operators.                                    *)
(***************************************************************************)
RECURSIVE Flatten(_)
Flatten(rs) == IF rs = <<>> THEN <<>> ELSE Head(rs) \o Flatten(Tail(rs))

Data(bs) == [i \in 1..Len(bs) |-> bs[i].callback_data]

(* n buttons packed into rows of w, the last row possibly shorter *)
Packed(rs, n, w) ==
    /\ Len(rs) = (n + w - 1) \div w
    /\ \A r \in 1..Len(rs) : Len(rs[r]) = IF r * w <= n THEN w ELSE n - (r - 1) * w

(* the rows of the markup but the last, and the last *)
Body(markup) == SubSeq(markup, 1, Len(markup) - 1)
Trailer(markup) == markup[Len(markup)]

BrandsOf(file) == [k \in 1..Len(file.brands) |-> file.brands[k].key]
ProductsOf(file, k) ==
    [j \in 1..Len(file.brands[k].val) |-> file.brands[k].val[j].key]

InCatalog(file, b) == \E k \in 1..Len(file.brands) : file.brands[k].key = b
InBrand(file, b, p) ==
    \E k \in 1..Len(file.brands) :
        /\ file.brands[k].key = b
        /\ \E j \in 1..Len(file.brands[k].val) : file.brands[k].val[j].key = p

(* a callback query was handled against a catalog that loaded *)
Handled(e) == e.kind = "button" /\ e.file.ok

(* the handler edited the message once, did nothing else, and the chat     *)
(* shows the edit                                                          *)
EditedOnce(c) ==
    /\ last[c].raised = NoException
    /\ Len(last[c].edits) = 1
    /\ last[c].replies = <<>>
    /\ shown[c] = last[c].edits[1]

IsRootLayout(markup, file) ==
    LET n == Len(file.brands)
    IN  /\ Len(markup) >= 1
        /\ Packed(Body(markup), n, 2)
        /\ Data(Flatten(Body(markup))) = [k \in 1..n |-> BrandToken(BrandsOf(file)[k])]
        /\ Data(Trailer(markup)) = <<NEWS>>

IsBrandList(m, file, k) ==
    LET b == file.brands[k].key
        ps == ProductsOf(file, k)
        markup == m.reply_markup
    IN  /\ m.text = << <<"products of brand ">> \o b \o <<", choose:">> >>
        /\ Len(markup) >= 1
        /\ Packed(Body(markup), Len(ps), 2)
        /\ Data(Flatten(Body(markup))) =
               [j \in 1..Len(ps) |-> ProductToken(b, ps[j])]
        /\ Data(Trailer(markup)) = <<HOME>>

IsProductDetail(m, file, k, j) ==
    LET b == file.brands[k].key
        p == file.brands[k].val[j].key
    IN  /\ Len(m.text) >= 2
        /\ m.text[1] = <<"box ">> \o b \o <<" -> ">> \o p
        /\ m.text[Len(m.text)] = file.brands[k].val[j].val.instruction
        /\ Len(m.reply_markup) = 2
        /\ Data(m.reply_markup[1]) = <<BrandToken(b)>>
        /\ Data(m.reply_markup[2]) = <<HOME>>

(* the generic failure message of the handler *)
IsFailure(m) ==
    /\ Len(m.text) = 1
    /\ Len(m.text[1]) >= 1
    /\ m.text[1][1] = "X error: "

(***************************************************************************)
(* C1: handling BRAND:b for a brand b of the catalog, also one without     *)
(* products, shows the brand's list: one button PRODUCT:b:p per product p  *)
(* of b, in catalog order, in rows of two, then one row holding HOME.      *)
(***************************************************************************)
C1_BrandList ==
    \A c \in DOMAIN last :
        Handled(last[c]) =>
            \A k \in 1..Len(last[c].file.brands) :
                last[c].qdata = BrandToken(last[c].file.brands[k].key) =>
                    /\ EditedOnce(c)
                    /\ IsBrandList(shown[c], last[c].file, k)

C1_Witness ==
    \E c \in DOMAIN last :
        /\ Handled(last[c])
        /\ \E k \in 1..Len(last[c].file.brands) :
              /\ last[c].qdata = BrandToken(last[c].file.brands[k].key)
              /\ Len(last[c].file.brands[k].val) = 3
        /\ Len(shown[c].reply_markup) = 3

(***************************************************************************)
(* C2: handling PRODUCT:b:p for a pair (b, p) of the catalog shows the     *)
(* product's detail: the header "b -> p", the stored instruction verbatim, *)
(* and two rows of one button, BRAND:b then HOME.                          *)
(***************************************************************************)
C2_ProductDetail ==
    \A c \in DOMAIN last :
        Handled(last[c]) =>
            \A k \in 1..Len(last[c].file.brands) :
                \A j \in 1..Len(last[c].file.brands[k].val) :
                    last[c].qdata = ProductToken(last[c].file.brands[k].key,
                                        last[c].file.brands[k].val[j].key) =>
                        /\ EditedOnce(c)
                        /\ IsProductDetail(shown[c], last[c].file, k, j)

(***************************************************************************)
(* C3: handling BRAND:b for a b that is not a brand of the catalog (the    *)
(* empty string included) raises nothing and shows the "brand not found"   *)
(* warning over the root layout of the catalog, never a brand's list.      *)
(***************************************************************************)
C3_UnknownBrand ==
    \A c \in DOMAIN last :
        LET q == last[c].qdata
        IN  ( /\ Handled(last[c])
              /\ Len(q) >= 2
              /\ q[1] = "B"
              /\ q[2] = SEP
              /\ ~ InCatalog(last[c].file, SubSeq(q, 3, Len(q))) ) =>
                /\ EditedOnce(c)
                /\ shown[c].text = << <<"! brand not found">> >>
                /\ IsRootLayout(shown[c].reply_markup, last[c].file)

C3_Witness ==
    \E c \in DOMAIN last :
        /\ Handled(last[c])
        /\ last[c].qdata = <<"B", SEP>>
        /\ Len(last[c].file.brands) = 3
        /\ Len(last[c].edits) = 1

(***************************************************************************)
(* C4: handling PRODUCT:b:p where b is no brand of the catalog or p no     *)
(* product of b ends in the failure message: one edit carrying the generic *)
(* failure text, no product detail, and nothing raised out of the handler. *)
(***************************************************************************)
C4_NotFound ==
    \A c \in DOMAIN last :
        Handled(last[c]) =>
            \A b \in BrandNames \cup {BrandName(k) : k \in 1..MaxBrands} :
                \A p \in ProductNames \cup {ProductName(j) : j \in 1..MaxBrands} :
                    ( /\ last[c].qdata = ProductToken(b, p)
                      /\ ~ InBrand(last[c].file, b, p) ) =>
                        /\ EditedOnce(c)
                        /\ IsFailure(shown[c])

(***************************************************************************)
(* C5: handling callback data of none of the shapes HOME, NEWS, BRAND:b,   *)
(* PRODUCT:b:p ends in the failure message shown to the user.              *)
(***************************************************************************)
WellShaped(q) ==
    \/ q = HOME
    \/ q = NEWS
    \/ Len(q) >= 2 /\ q[1] = "B" /\ q[2] = SEP
    \/ /\ Len(q) >= 3
       /\ q[1] = "P"
       /\ q[2] = SEP
       /\ \E i \in 3..Len(q) : q[i] = SEP

C5_Malformed ==
    \A c \in DOMAIN last :
        (Handled(last[c]) /\ ~ WellShaped(last[c].qdata)) =>
            /\ EditedOnce(c)
            /\ IsFailure(shown[c])

(***************************************************************************)
(* C6: the layout of a sequence of buttons with row width w >= 1 is a      *)
(* partition into consecutive chunks: the rows concatenated give the input *)
(* back, every row but the last has w entries, the last has 1 to w, and    *)
(* the empty input gives the empty layout.                                 *)
(***************************************************************************)
C6_Layout ==
    rows.done =>
        /\ Flatten(rows.value) = buttons
        /\ \A r \in 1..(Len(rows.value) - 1) : Len(rows.value[r]) = per_row
        /\ rows.value # <<>> =>
              /\ Len(rows.value[Len(rows.value)]) >= 1
              /\ Len(rows.value[Len(rows.value)]) <= per_row
        /\ buttons = <<>> => rows.value = <<>>

C6_Witness ==
    /\ rows.done
    /\ Len(buttons) = 5
    /\ per_row = 2
    /\ [r \in 1..Len(rows.value) |-> Len(rows.value[r])] = <<2, 2, 1>>

(***************************************************************************)
(* C7: the root layout holds one button BRAND:<brand> per brand, in        *)
(* catalog order, in rows of two, then one row holding the NEWS button     *)
(* alone, also when the number of brands is odd or zero.                   *)
(***************************************************************************)
RootShown(c) ==
    /\ last[c].file.ok
    /\ \/ last[c].kind \in {"start", "menu"}
       \/ last[c].kind = "button" /\ last[c].qdata = HOME

C7_RootLayout ==
    \A c \in DOMAIN last :
        RootShown(c) =>
            /\ last[c].raised = NoException
            /\ shown[c] \in {last[c].edits[i] : i \in 1..Len(last[c].edits)}
                  \cup {last[c].replies[i] : i \in 1..Len(last[c].replies)}
            /\ IsRootLayout(shown[c].reply_markup, last[c].file)

C7_Witness ==
    \E c \in DOMAIN last :
        /\ RootShown(c)
        /\ Len(last[c].file.brands) = 3
        /\ Len(shown[c].reply_markup) = 3

(***************************************************************************)
(* C8: the news screen, reached by the NEWS button or by the events        *)
(* command, carries the root layout of the catalog; with no news its text  *)
(* is the "no news yet" placeholder.                                       *)
(***************************************************************************)
NewsShown(c) ==
    \/ last[c].kind = "events"
    \/ Handled(last[c]) /\ last[c].qdata = NEWS

ItemsOf(newsfile) == IF newsfile.ok THEN newsfile.items ELSE <<>>

C8_NewsLayout ==
    \A c \in DOMAIN last :
        NewsShown(c) =>
            /\ IF last[c].kind = "button"
               THEN IsRootLayout(shown[c].reply_markup, last[c].file)
               ELSE \E file \in Files :
                        file.ok /\ IsRootLayout(shown[c].reply_markup, file)
            /\ ItemsOf(last[c].newsfile) = <<>> =>
                  shown[c].text = << <<"no news yet">> >>

(***************************************************************************)
(* C9: for a news sequence of length n the news text renders the first     *)
(* min(n, 5) items, in order, numbered 1..min(n, 5), and no item beyond    *)
(* the fifth.                                                              *)
(***************************************************************************)
TitleOf(it) ==
    IF \E i \in 1..Len(it) : it[i].key = "title"
    THEN it[CHOOSE i \in 1..Len(it) : it[i].key = "title"].val
    ELSE <<"untitled">>

C9_NewsItems ==
    \A c \in DOMAIN last :
        NewsShown(c) =>
            LET items == ItemsOf(last[c].newsfile)
                n == IF Len(items) <= 5 THEN Len(items) ELSE 5
                lines == Tail(shown[c].text)
            IN  /\ Len(lines) = n
                /\ \A i \in 1..n :
                      /\ Len(lines[i]) >= 2 + Len(TitleOf(items[i]))
                      /\ lines[i][1] = DIGITS[i + 1]
                      /\ SubSeq(lines[i], 3, 2 + Len(TitleOf(items[i])))
                             = TitleOf(items[i])

C9_Witness ==
    \E c \in DOMAIN last :
        /\ NewsShown(c)
        /\ Len(ItemsOf(last[c].newsfile)) = 6
        /\ Len(shown[c].text) = 6

(***************************************************************************)
(* C10: routing is stateless: what a chat shows after a callback query     *)
(* depends on the callback data and the catalog and news it was handled    *)
(* against only, not on what the chat showed before nor on other events,   *)
(* so two chats that handled the same data against the same snapshot show  *)
(* the same text and buttons.                                              *)
(***************************************************************************)
C10_Stateless ==
    \A c1, c2 \in DOMAIN last :
        ( /\ Handled(last[c1])
          /\ Handled(last[c2])
          /\ last[c1].qdata = last[c2].qdata
          /\ last[c1].file = last[c2].file
          /\ last[c1].newsfile = last[c2].newsfile ) =>
            shown[c1] = shown[c2]

(***************************************************************************)
(* C11: button closure.  Pressing a button of a screen against the catalog *)
(* that built the screen never ends in the failure message, the warning or *)
(* in nothing, and shows the screen the button was made for: a brand       *)
(* button of the root layout the list of its brand, a product button of a  *)
(* brand's list the detail of its product.                                 *)
(***************************************************************************)
Buttons(m) == Flatten(m.reply_markup)

(* the message shown was built by the last event from a catalog *)
Built(c) ==
    /\ last[c].file.ok
    /\ shown[c] \in {last[c].edits[i] : i \in 1..Len(last[c].edits)}
          \cup {last[c].replies[i] : i \in 1..Len(last[c].replies)}

MadeFor(old, new, file, bt) ==
    /\ \A k \in 1..Len(file.brands) :
          ( /\ IsRootLayout(old.reply_markup, file)
            /\ bt.text = file.brands[k].key
            /\ bt.callback_data # NEWS ) => IsBrandList(new, file, k)
    /\ \A k \in 1..Len(file.brands) :
          \A j \in 1..Len(file.brands[k].val) :
              ( /\ IsBrandList(old, file, k)
                /\ bt.text = file.brands[k].val[j].key
                /\ bt.callback_data # HOME ) => IsProductDetail(new, file, k, j)

C11_Closure ==
    [][\A c \in DOMAIN last :
          \A i \in 1..Len(Buttons(shown[c])) :
              ( /\ Built(c)
                /\ last'[c] # last[c]
                /\ last'[c].kind = "button"
                /\ last'[c].file = last[c].file
                /\ last'[c].qdata = Buttons(shown[c])[i].callback_data ) =>
                  /\ last'[c].raised = NoException
                  /\ Len(last'[c].edits) = 1
                  /\ shown'[c] = last'[c].edits[1]
                  /\ ~ IsFailure(shown'[c])
                  /\ shown'[c].text # << <<"! brand not found">> >>
                  /\ MadeFor(shown[c], shown'[c], last[c].file,
                             Buttons(shown[c])[i])]_vars

(***************************************************************************)
(* C12: when products.json does not load, handling start, menu or a        *)
(* callback query renders no partial screen, and the failure does not      *)
(* leave the handler: it is turned into one message shown to the user.     *)
(***************************************************************************)
C12_LoadFailure ==
    \A c \in DOMAIN last :
        ( /\ last[c].kind \in {"start", "menu", "button"}
          /\ ~ last[c].file.ok ) =>
            /\ last[c].raised = NoException
            /\ Len(last[c].edits) + Len(last[c].replies) = 1
            /\ shown[c] \in {last[c].edits[i] : i \in 1..Len(last[c].edits)}
                  \cup {last[c].replies[i] : i \in 1..Len(last[c].replies)}
            /\ shown[c].text # <<>>

(***************************************************************************)
(* C13: when news.json does not load (absent, unreadable, not a list) the  *)
(* NEWS button still shows the news screen: the "no news yet" placeholder  *)
(* over the root layout, nothing raised.                                   *)
(***************************************************************************)
C13_NewsFailure ==
    \A c \in DOMAIN last :
        ( /\ Handled(last[c])
          /\ last[c].qdata = NEWS
          /\ ~ last[c].newsfile.ok ) =>
            /\ EditedOnce(c)
            /\ shown[c].text = << <<"no news yet">> >>
            /\ IsRootLayout(shown[c].reply_markup, last[c].file)

C13_Witness ==
    \E c \in DOMAIN last :
        /\ Handled(last[c])
        /\ last[c].qdata = NEWS
        /\ ~ last[c].newsfile.ok
        /\ Len(last[c].file.brands) = 2
        /\ Len(last[c].edits) = 1

(***************************************************************************)
(* C14 as stated: the start command, the menu command and the HOME button  *)
(* render the same root screen for a given catalog, the same text and the  *)
(* same buttons: two chats whose last event is one of the three, against   *)
(* the same catalog, show the same message.                                *)
(***************************************************************************)
C14_SameRoot ==
    \A c1, c2 \in DOMAIN last :
        (RootShown(c1) /\ RootShown(c2) /\ last[c1].file = last[c2].file) =>
            /\ shown[c1].text = shown[c2].text
            /\ shown[c1].reply_markup = shown[c2].reply_markup

(***************************************************************************)
(* C14: for a given catalog the start command, the menu command and the    *)
(* HOME button render the same buttons, the root layout of the catalog;    *)
(* the menu command and the HOME button render the same text, and the      *)
(* start command renders a text of its own, the same for every catalog.    *)
(***************************************************************************)
IsHome(e) == e.kind = "menu" \/ (e.kind = "button" /\ e.qdata = HOME)

C14_RootScreens ==
    \A c1, c2 \in DOMAIN last :
        (RootShown(c1) /\ RootShown(c2)) =>
            /\ last[c1].file = last[c2].file =>
                  shown[c1].reply_markup = shown[c2].reply_markup
            /\ (IsHome(last[c1]) /\ IsHome(last[c2])) =>
                  shown[c1].text = shown[c2].text
            /\ (last[c1].kind = "start" /\ last[c2].kind = "start") =>
                  shown[c1].text = shown[c2].text
            /\ shown[c1].parse_mode = shown[c2].parse_mode

C14_Witness ==
    /\ last[1].kind = "menu"
    /\ last[2].kind = "button" /\ last[2].qdata = HOME
    /\ last[1].file = last[2].file
    /\ Len(last[1].file.brands) = 2
    /\ shown[1] = shown[2]
    /\ Len(shown[1].reply_markup) = 2

(***************************************************************************)
(* C15: the callback data of a button parses back to the identifiers it    *)
(* was built from, also when they hold the separator: the data of the      *)
(* button of brand b splits into ("B", b), the data of the button of       *)
(* product p of brand b into ("P", b, p).                                  *)
(***************************************************************************)
C15_RoundTrip ==
    \A c \in DOMAIN last :
        Built(c) =>
            LET file == last[c].file
                bs == Buttons(shown[c])
            IN  /\ IsRootLayout(shown[c].reply_markup, file) =>
                      \A k \in 1..Len(file.brands) :
                          split(bs[k].callback_data, SEP, 1)
                              = << <<"B">>, file.brands[k].key >>
                /\ \A k \in 1..Len(file.brands) :
                      IsBrandList(shown[c], file, k) =>
                          \A j \in 1..Len(file.brands[k].val) :
                              split(bs[j].callback_data, SEP, 2)
                                  = << <<"P">>, file.brands[k].key,
                                       file.brands[k].val[j].key >>

(***************************************************************************)
(* C16: handling one event reads products.json exactly once and never      *)
(* writes it, and when the file is replaced by another process, between    *)
(* events or while one is handled, the screen the event produces, its text *)
(* and all its buttons, is built from the one content that was read: the   *)
(* root layout of that content, the list of one of its brands, or the      *)
(* detail of one of its products, never a mixture with the new content.    *)
(***************************************************************************)
OneSnapshot ==
    LET c == run.chat
        file == run.data
        m == shown[c]
    IN  /\ run.loads = 1
        /\ last[c].file = file
        /\ Built(c) =>
              /\ (RootShown(c) \/ last[c].qdata = NEWS) =>
                    IsRootLayout(m.reply_markup, file)
              /\ \A k \in 1..Len(file.brands) :
                    ( /\ last[c].kind = "button"
                      /\ last[c].qdata = BrandToken(BrandsOf(file)[k]) ) =>
                        IsBrandList(m, file, k)
              /\ m.reply_markup # NoMarkup =>
                    \/ IsRootLayout(m.reply_markup, file)
                    \/ \E k \in 1..Len(file.brands) : IsBrandList(m, file, k)
                    \/ \E k \in 1..Len(file.brands) :
                          \E j \in 1..Len(file.brands[k].val) :
                              IsProductDetail(m, file, k, j)

C16_Snapshot ==
    [][ /\ run'.pc # run.pc => disk' = disk
        /\ (run.pc = "loaded" /\ run'.pc = "done") => OneSnapshot' ]_vars

C16_Witness ==
    /\ run.pc = "done"
    /\ run.replaced
    /\ run.data.ok /\ disk.ok /\ disk # run.data
    /\ run.qdata = BrandToken(BrandName(1))
    /\ IsBrandList(shown[1], run.data, 1)
    /\ ~ IsBrandList(shown[1], disk, 1)

(***************************************************************************)
(* C17: every callback query, whatever its data, results in exactly one    *)
(* edit of the message it came from and in no new message; new messages    *)
(* are sent in response to commands only.  Stated for the queries handled  *)
(* against a catalog that loaded.                                          *)
(***************************************************************************)
C17_OneEdit ==
    \A c \in DOMAIN last :
        /\ Handled(last[c]) =>
              /\ Len(last[c].edits) = 1
              /\ last[c].replies = <<>>
        /\ last[c].replies # <<>> =>
              last[c].kind \in {"start", "menu", "events", "help"}

(***************************************************************************)
(* C18: no dead ends.  The message a callback query leaves shown, the      *)
(* warning and the failure message included, carries a button, and a       *)
(* message with the root layout is reached from it by pressing buttons.    *)
(***************************************************************************)
RECURSIVE RootWithin(_, _, _)
RootWithin(m, file, d) ==
    \/ IsRootLayout(m.reply_markup, file)
    \/ /\ d > 0
       /\ \E i \in 1..Len(Buttons(m)) :
             LET r == on_button(Buttons(m)[i].callback_data, file, NoNewsFile)
             IN  /\ r.edits # <<>>
                 /\ RootWithin(r.edits[1], file, d - 1)

C18_NoDeadEnd ==
    \A c \in DOMAIN last :
        Handled(last[c]) =>
            /\ Buttons(shown[c]) # <<>>
            /\ RootWithin(shown[c], last[c].file, 2)

====
